---- MODULE Spec2Model ----
(***************************************************************************)
(* Nanocellulose production optimisation: the cost model of                *)
(* production_model.py (ProductionModel) and the genetic algorithm of      *)
(* ga_optimization.py (setup_ga, run_ga, with the DEAP operators it        *)
(* registers: initCycle/initRepeat, selTournament, cxUniform, mutGaussian, *)
(* HallOfFame(1), Statistics and algorithms.eaSimple).                     *)
(*                                                                         *)
(* Numbers.  The program computes in floating point; the model computes in *)
(* exact integers.  Money is counted in pence (1/100 GBP) so that the      *)
(* default energy price C_E = 0.15 GBP is the integer 15; the penalty      *)
(* multiplier 1000 (GBP per unit of violation) is therefore 1000 * 100     *)
(* pence.  Probabilities are counted in tenths: random.random() is a draw  *)
(* r from 0..9 standing for r/10.                                          *)
(***************************************************************************)
EXTENDS Integers, Sequences, FiniteSets

VARIABLES
    \* run_ga's parameters
    population_size, generations, cxpb, mutpb,
    \* position in run_ga / eaSimple, and the exception that ended the run
    pc, error,
    \* eaSimple's locals and the objects run_ga created
    population, offspring, hof, gen, nevals, logbook,
    \* what run_ga returned
    result,
    \* a single call of ProductionModel.fitness_function and friends
    solution, outcome

vars == <<population_size, generations, cxpb, mutpb, pc, error,
          population, offspring, hof, gen, nevals, logbook, result, solution, outcome>>

(***************************************************************************)
(* Data loaded by ProductionModel.__init__                                 *)
(***************************************************************************)
\* Rows of the Technologies table, in table order (costs in pence).
Technologies ==
    << [id |-> 1, capital_cost |-> 10000, operational_cost |-> 200,
        energy_consumption_rate |-> 5, efficiency_factor |-> 1],
       [id |-> 2, capital_cost |-> 30000, operational_cost |-> 100,
        energy_consumption_rate |-> 2, efficiency_factor |-> 2] >>

\* self.C_B = self.materials['cost'].sum(), here one material of 1 GBP/kg
C_B == 100
\* metrics.get(...) defaults
Q_min == 400
E_max == 2500
P_max == 1000
C_E == 15

\* "* 1000" on a violation, in pence
PenaltyMultiplier == 100000

(***************************************************************************)
(* Python results: a returned value or a raised exception                  *)
(***************************************************************************)
Return(v) == [value |-> v]
Raise(e) == [raised |-> e]
Raised(r) == "raised" \in DOMAIN r

\* self.technologies[self.technologies['id'] == technology_id]
Rows(technology_id) == SelectSeq(Technologies, LAMBDA r : r.id = technology_id)

\* A lookup that falls back to the first row of the table when nothing matches.
Iloc0Defaulting(technology_id) ==
    IF Len(Rows(technology_id)) = 0
    THEN Return(Technologies[1])
    ELSE Return(Rows(technology_id)[1])

\* ....iloc[0]: the first matching row, IndexError when there is none
Iloc0(technology_id) ==
    IF Len(Rows(technology_id)) = 0
    THEN Raise("IndexError")
    ELSE Return(Rows(technology_id)[1])

calculate_quality(technology_id, y) ==
    LET tech == Iloc0(technology_id)
    IN  IF Raised(tech) THEN tech
        ELSE Return(tech.value.efficiency_factor * y)

objective_function(sol) ==
    LET technology_id == sol[1]
        y == sol[2]
        tech == Iloc0(technology_id)
    IN  IF Raised(tech) THEN tech
        ELSE LET C_Ti == tech.value.capital_cost
                 C_Oi == tech.value.operational_cost
                 E_i == tech.value.energy_consumption_rate
                 total_capital_cost == C_Ti
                 total_operational_cost == C_Oi * y
                 total_energy_cost == C_E * E_i * y
                 total_biomass_cost == C_B * y
             IN  Return(total_capital_cost + total_operational_cost
                        + total_energy_cost + total_biomass_cost)

\* Only the first violated constraint is charged.
is_feasible_first_only(sol) ==
    LET technology_id == sol[1]
        y == sol[2]
        tech == Iloc0(technology_id)
    IN  IF Raised(tech) THEN tech
        ELSE LET energy_consumption == tech.value.energy_consumption_rate * y
                 Q == calculate_quality(technology_id, y).value
                 c1 == y <= P_max
                 c2 == energy_consumption <= E_max
                 c3 == Q >= Q_min
                 c4 == y >= 0
                 penalty == IF ~c1 THEN (y - P_max) * PenaltyMultiplier
                            ELSE IF ~c2 THEN (energy_consumption - E_max) * PenaltyMultiplier
                            ELSE IF ~c3 THEN (Q_min - Q) * PenaltyMultiplier
                            ELSE IF ~c4 THEN (-y) * PenaltyMultiplier
                            ELSE 0
             IN  Return(<<c1 /\ c2 /\ c3 /\ c4, penalty>>)

\* The energy constraint compares with a strict inequality.
is_feasible_strict_energy(sol) ==
    LET technology_id == sol[1]
        y == sol[2]
        tech == Iloc0(technology_id)
    IN  IF Raised(tech) THEN tech
        ELSE LET energy_consumption == tech.value.energy_consumption_rate * y
                 Q == calculate_quality(technology_id, y).value
                 c1 == y <= P_max
                 c2 == energy_consumption < E_max
                 c3 == Q >= Q_min
                 c4 == y >= 0
                 p1 == IF ~c1 THEN (y - P_max) * PenaltyMultiplier ELSE 0
                 p2 == IF ~c2 THEN (energy_consumption - E_max) * PenaltyMultiplier ELSE 0
                 p3 == IF ~c3 THEN (Q_min - Q) * PenaltyMultiplier ELSE 0
                 p4 == IF ~c4 THEN (-y) * PenaltyMultiplier ELSE 0
             IN  Return(<<c1 /\ c2 /\ c3 /\ c4, p1 + p2 + p3 + p4>>)

is_feasible(sol) ==
    LET technology_id == sol[1]
        y == sol[2]
        tech == Iloc0(technology_id)
    IN  IF Raised(tech) THEN tech
        ELSE LET capacity_feasibility == y <= P_max
                 energy_consumption == tech.value.energy_consumption_rate * y
                 energy_feasibility == energy_consumption <= E_max
                 Q == calculate_quality(technology_id, y).value
                 quality_feasibility == Q >= Q_min
                 non_negativity == y >= 0
                 feasible == capacity_feasibility /\ energy_feasibility
                             /\ quality_feasibility /\ non_negativity
                 p1 == IF ~capacity_feasibility
                       THEN (y - P_max) * PenaltyMultiplier ELSE 0
                 p2 == IF ~energy_feasibility
                       THEN (energy_consumption - E_max) * PenaltyMultiplier ELSE 0
                 p3 == IF ~quality_feasibility
                       THEN (Q_min - Q) * PenaltyMultiplier ELSE 0
                 p4 == IF ~non_negativity
                       THEN (-y) * PenaltyMultiplier ELSE 0
             IN  Return(<<feasible, p1 + p2 + p3 + p4>>)

\* Returns the 1-tuple (cost,) that DEAP stores as fitness.values.
fitness_function(sol) ==
    LET total_cost == objective_function(sol)
        feas == is_feasible(sol)
    IN  IF Raised(total_cost) THEN total_cost
        ELSE IF Raised(feas) THEN feas
        ELSE IF feas.value[1]
             THEN Return(<<total_cost.value>>)
             ELSE Return(<<total_cost.value + feas.value[2]>>)

(***************************************************************************)
(* DEAP objects registered by setup_ga                                     *)
(***************************************************************************)
\* creator.Individual: a list of genes with a fitness whose values are a
\* tuple, empty while the fitness is invalid.
Individual(genes, values) == [genes |-> genes, fitness |-> values]
Valid(ind) == ind.fitness # <<>>

\* technology_ids = list(model.technologies['id'])
technology_ids == [i \in 1..Len(Technologies) |-> Technologies[i].id]
TechIdSet == {technology_ids[i] : i \in 1..Len(technology_ids)}

\* random.random() < p, with p in tenths: the outcomes the draw can give
Bernoulli(p) == {r < p : r \in 0..9}

\* toolbox.production_capacity: random.uniform(0, P_max); the draw modelled
InitCapacities == {P_max}

\* mutGaussian's mu, sigma and indpb, cxUniform's indpb, selTournament's size
Sigma == 50
MutIndpb == 2
CxIndpb == 5
Tournsize == 3

\* random.gauss(0, sigma): the draws modelled
Noise == {-Sigma, Sigma}

\* toolbox.individual: initCycle over (tech_id, production_capacity), n = 1
NewIndividuals ==
    {Individual(<<t, c>>, <<>>) : t \in TechIdSet, c \in InitCapacities}

\* All sequences s of length Len(sets) with s[i] \in sets[i]
RECURSIVE Product(_)
Product(sets) ==
    IF Len(sets) = 0 THEN {<<>>}
    ELSE {<<x>> \o rest : x \in Head(sets), rest \in Product(Tail(sets))}

\* range(n) as a set of 1-based positions
Range(n) == 1..(IF n > 0 THEN n ELSE 0)

\* base.Fitness with weights = (-1.0,): wvalues, and their comparison
Wvalues(values) == [i \in DOMAIN values |-> (-1) * values[i]]
FitnessGt(a, b) ==
    LET wa == Wvalues(a)
        wb == Wvalues(b)
    IN  IF Len(wa) = 0 THEN FALSE
        ELSE IF Len(wb) = 0 THEN TRUE
        ELSE wa[1] > wb[1]

\* max(aspirants, key=attrgetter("fitness")): the first maximal one
MaxByFitness(aspirants) ==
    LET best == CHOOSE i \in 1..Len(aspirants) :
                    /\ \A j \in 1..Len(aspirants) :
                           ~FitnessGt(aspirants[j].fitness, aspirants[i].fitness)
                    /\ \A j \in 1..(i - 1) :
                           FitnessGt(aspirants[i].fitness, aspirants[j].fitness)
    IN  aspirants[best]

\* One tournament: selRandom draws tournsize members with replacement
TournamentWinners(individuals) ==
    {MaxByFitness([a \in 1..Tournsize |-> individuals[draw[a]]]) :
        draw \in [1..Tournsize -> 1..Len(individuals)]}

\* A selection that runs one tournament too few.
selTournamentShort(individuals, k) ==
    Product([i \in Range(k - 1) |-> TournamentWinners(individuals)])

\* tools.selTournament(individuals, k, tournsize=3): the lists it can return
selTournament(individuals, k) ==
    Product([i \in Range(k) |-> TournamentWinners(individuals)])

\* A mate step that leaves the cached fitness of the children in place.
MateKeepFitness(ind1, ind2, swap) ==
    << Individual(<<IF swap[1] THEN ind2.genes[1] ELSE ind1.genes[1],
                    IF swap[2] THEN ind2.genes[2] ELSE ind1.genes[2]>>,
                  ind1.fitness),
       Individual(<<IF swap[1] THEN ind1.genes[1] ELSE ind2.genes[1],
                    IF swap[2] THEN ind1.genes[2] ELSE ind2.genes[2]>>,
                  ind2.fitness) >>

\* toolbox.mate = cxUniform(ind1, ind2, indpb=0.5), followed by varAnd's
\* del of both fitness values; swap[i] is the outcome of gene i's draw
Mate(ind1, ind2, swap) ==
    << Individual(<<IF swap[1] THEN ind2.genes[1] ELSE ind1.genes[1],
                    IF swap[2] THEN ind2.genes[2] ELSE ind1.genes[2]>>,
                  <<>>),
       Individual(<<IF swap[1] THEN ind1.genes[1] ELSE ind2.genes[1],
                    IF swap[2] THEN ind1.genes[2] ELSE ind2.genes[2]>>,
                  <<>>) >>

\* What varAnd's first loop can make of the pair (ind1, ind2)
MatePairs(ind1, ind2, p) ==
    {IF doCx THEN Mate(ind1, ind2, swap) ELSE <<ind1, ind2>> :
        doCx \in Bernoulli(p), swap \in [1..2 -> Bernoulli(CxIndpb)]}

\* varAnd's first loop: for i in range(1, len(offspring), 2)
RECURSIVE CrossoverOutcomes(_, _)
CrossoverOutcomes(inds, p) ==
    IF Len(inds) < 2 THEN {inds}
    ELSE {pair \o rest : pair \in MatePairs(inds[1], inds[2], p),
                         rest \in CrossoverOutcomes(SubSeq(inds, 3, Len(inds)), p)}

\* toolbox.mutate = mutGaussian(individual, mu=0, sigma=50, indpb=0.2),
\* followed by varAnd's del of the fitness values; hit[i] is the outcome of
\* gene i's draw and noise[i] its gaussian sample
Mutate(ind, hit, noise) ==
    Individual(<<IF hit[1] THEN ind.genes[1] + noise[1] ELSE ind.genes[1],
                 IF hit[2] THEN ind.genes[2] + noise[2] ELSE ind.genes[2]>>,
               <<>>)

\* What varAnd's second loop can make of one individual
Mutations(ind, p) ==
    {IF doMut THEN Mutate(ind, hit, noise) ELSE ind :
        doMut \in Bernoulli(p), hit \in [1..2 -> Bernoulli(MutIndpb)],
        noise \in [1..2 -> Noise]}

MutationOutcomes(inds, p) ==
    Product([i \in 1..Len(inds) |-> Mutations(inds[i], p)])

\* toolbox.evaluate
evaluate_individual(individual) == fitness_function(individual.genes)

\* eaSimple's evaluation of the individuals with an invalid fitness.  map is
\* lazy: the individuals before the first one whose evaluation raises have
\* their values assigned, then the exception leaves the loop.
EvaluateInvalid(inds) ==
    LET invalid_ind == {i \in 1..Len(inds) : ~Valid(inds[i])}
        failing == {i \in invalid_ind : Raised(evaluate_individual(inds[i]))}
        firstFail == IF failing = {} THEN Len(inds) + 1
                     ELSE CHOOSE i \in failing : \A j \in failing : i <= j
    IN  [inds |-> [i \in 1..Len(inds) |->
                     IF i \in invalid_ind /\ i < firstFail
                     THEN Individual(inds[i].genes, evaluate_individual(inds[i]).value)
                     ELSE inds[i]],
         nevals |-> Cardinality(invalid_ind),
         raised |-> failing # {}]

\* A hall of fame that compares the raw values, as if fitness were maximised.
HofInsertWrongSign(h, ind, first) ==
    IF Len(h) = 0 THEN <<first>>
    ELSE IF FitnessGt(h[Len(h)].fitness, ind.fitness) /\ ind.genes # h[1].genes
         THEN <<ind>>
         ELSE h

\* One iteration of HallOfFame.update's loop for a hall of size 1: an empty
\* hall takes population[0]; otherwise ind replaces the member when its
\* fitness is strictly greater and its genes differ (self.similar)
HofInsert(h, ind, first) ==
    IF Len(h) = 0 THEN <<first>>
    ELSE IF FitnessGt(ind.fitness, h[Len(h)].fitness) /\ ind.genes # h[1].genes
         THEN <<ind>>
         ELSE h

RECURSIVE HofUpdateFrom(_, _, _)
HofUpdateFrom(h, inds, i) ==
    IF i > Len(inds) THEN h
    ELSE HofUpdateFrom(HofInsert(h, inds[i], inds[1]), inds, i + 1)

\* An update whose loop stops one individual short.
HofUpdateSkipLast(h, inds) == HofUpdateFrom(h, SubSeq(inds, 1, Len(inds) - 1), 1)

\* halloffame.update(population)
HofUpdate(h, inds) == HofUpdateFrom(h, inds, 1)

RECURSIVE SumValues(_)
SumValues(inds) ==
    IF Len(inds) = 0 THEN 0 ELSE Head(inds).fitness[1] + SumValues(Tail(inds))

\* stats.compile(population): avg is the exact quotient <<sum, count>>;
\* np.min of an empty tuple raises ValueError
StatsCompile(inds) ==
    IF Len(inds) = 0 THEN Raise("ValueError")
    ELSE LET values == {inds[i].fitness[1] : i \in 1..Len(inds)}
         IN  Return([avg |-> <<SumValues(inds), Len(inds)>>,
                     min |-> CHOOSE v \in values : \A w \in values : v <= w,
                     max |-> CHOOSE v \in values : \A w \in values : v >= w])

(***************************************************************************)
(* run_ga: algorithms.eaSimple on a fresh population, then the best of the *)
(* hall of fame                                                            *)
(***************************************************************************)
\* Bounds of the model: the largest population size and generation count
\* tried, and the largest product of the two
MaxPop == 2
MaxGen == 2
MaxWork == 4

\* The default crossover and mutation probabilities of run_ga, in tenths
CXPB == 7
MUTPB == 2

\* The arguments run_ga is called with
PopulationSizes == (-1)..MaxPop
GenerationCounts == (-1)..MaxGen
CrossoverProbabilities == {CXPB, 15}
MutationProbabilities == {-1, MUTPB}

Abort(e) ==
    /\ pc' = "aborted"
    /\ error' = e

Init ==
    /\ population_size \in PopulationSizes
    /\ generations \in GenerationCounts
    /\ population_size * generations <= MaxWork
    /\ cxpb \in CrossoverProbabilities
    /\ mutpb \in MutationProbabilities
    /\ pc = "start"
    /\ error = "none"
    /\ population = <<>>
    /\ offspring = <<>>
    /\ hof = <<>>
    /\ gen = 0
    /\ nevals = 0
    /\ logbook = <<>>
    /\ result = <<>>
    /\ solution = <<>>
    /\ outcome = <<>>

\* population = toolbox.population(n=population_size)
CreatePopulation ==
    /\ pc = "start"
    /\ population' \in Product([i \in Range(population_size) |-> NewIndividuals])
    /\ pc' = "created"
    /\ UNCHANGED <<population_size, generations, cxpb, mutpb, error, offspring,
                   hof, gen, nevals, logbook, result, solution, outcome>>

\* eaSimple, before the loop: evaluate the individuals with an invalid fitness
EvaluatePopulation ==
    /\ pc = "created"
    /\ LET pass == EvaluateInvalid(population)
       IN  /\ population' = pass.inds
           /\ nevals' = pass.nevals
           /\ IF pass.raised THEN Abort("IndexError")
              ELSE pc' = "evaluated0" /\ UNCHANGED error
    /\ UNCHANGED <<population_size, generations, cxpb, mutpb, offspring,
                   hof, gen, logbook, result, solution, outcome>>

\* eaSimple, before the loop: halloffame.update(population)
UpdateHofInitial ==
    /\ pc = "evaluated0"
    /\ hof' = HofUpdate(hof, population)
    /\ pc' = "tracked0"
    /\ UNCHANGED <<population_size, generations, cxpb, mutpb, error, population,
                   offspring, gen, nevals, logbook, result, solution, outcome>>

\* eaSimple, before the loop: record = stats.compile(population);
\* logbook.record(gen=0, nevals=len(invalid_ind), **record)
RecordInitial ==
    /\ pc = "tracked0"
    /\ LET record == StatsCompile(population)
       IN  IF Raised(record)
           THEN Abort(record.raised) /\ UNCHANGED logbook
           ELSE /\ logbook' = Append(logbook, [gen |-> 0, nevals |-> nevals,
                                               stats |-> record.value])
                /\ pc' = "loop"
                /\ UNCHANGED error
    /\ UNCHANGED <<population_size, generations, cxpb, mutpb, population,
                   offspring, hof, gen, nevals, result, solution, outcome>>

\* for gen in range(1, ngen + 1): offspring = toolbox.select(population, len(population))
Select ==
    /\ pc = "loop"
    /\ gen < generations
    /\ gen' = gen + 1
    /\ offspring' \in selTournament(population, Len(population))
    /\ pc' = "selected"
    /\ UNCHANGED <<population_size, generations, cxpb, mutpb, error, population,
                   hof, nevals, logbook, result, solution, outcome>>

\* varAnd: clone the selected individuals, then mate consecutive pairs
Crossover ==
    /\ pc = "selected"
    /\ offspring' \in CrossoverOutcomes(offspring, cxpb)
    /\ pc' = "mated"
    /\ UNCHANGED <<population_size, generations, cxpb, mutpb, error, population,
                   hof, gen, nevals, logbook, result, solution, outcome>>

\* varAnd: mutate each individual
Mutation ==
    /\ pc = "mated"
    /\ offspring' \in MutationOutcomes(offspring, mutpb)
    /\ pc' = "varied"
    /\ UNCHANGED <<population_size, generations, cxpb, mutpb, error, population,
                   hof, gen, nevals, logbook, result, solution, outcome>>

\* eaSimple, in the loop: evaluate the offspring with an invalid fitness
EvaluateOffspring ==
    /\ pc = "varied"
    /\ LET pass == EvaluateInvalid(offspring)
       IN  /\ offspring' = pass.inds
           /\ nevals' = pass.nevals
           /\ IF pass.raised THEN Abort("IndexError")
              ELSE pc' = "evaluated" /\ UNCHANGED error
    /\ UNCHANGED <<population_size, generations, cxpb, mutpb, population,
                   hof, gen, logbook, result, solution, outcome>>

\* eaSimple, in the loop: halloffame.update(offspring)
UpdateHof ==
    /\ pc = "evaluated"
    /\ hof' = HofUpdate(hof, offspring)
    /\ pc' = "tracked"
    /\ UNCHANGED <<population_size, generations, cxpb, mutpb, error, population,
                   offspring, gen, nevals, logbook, result, solution, outcome>>

\* eaSimple, in the loop: population[:] = offspring, then the generation's
\* statistics are compiled from the population and recorded
ReplaceAndRecord ==
    /\ pc = "tracked"
    /\ population' = offspring
    /\ LET record == StatsCompile(offspring)
       IN  IF Raised(record)
           THEN Abort(record.raised) /\ UNCHANGED logbook
           ELSE /\ logbook' = Append(logbook, [gen |-> gen, nevals |-> nevals,
                                               stats |-> record.value])
                /\ pc' = "loop"
                /\ UNCHANGED error
    /\ UNCHANGED <<population_size, generations, cxpb, mutpb, offspring,
                   hof, gen, nevals, result, solution, outcome>>

\* run_ga after eaSimple: best = hof[0];
\* best_cost = model.fitness_function(tuple(best))[0]; return best, best_cost
Finish ==
    /\ pc = "loop"
    /\ gen >= generations
    /\ IF Len(hof) = 0 THEN Abort("IndexError") /\ UNCHANGED result
       ELSE LET best == hof[1]
                fit == fitness_function(best.genes)
            IN  IF Raised(fit) THEN Abort(fit.raised) /\ UNCHANGED result
                ELSE /\ result' = <<[best |-> best, best_cost |-> fit.value[1]]>>
                     /\ pc' = "done"
                     /\ UNCHANGED error
    /\ UNCHANGED <<population_size, generations, cxpb, mutpb, population,
                   offspring, hof, gen, nevals, logbook, solution, outcome>>

Next ==
    \/ CreatePopulation
    \/ EvaluatePopulation
    \/ UpdateHofInitial
    \/ RecordInitial
    \/ Select
    \/ Crossover
    \/ Mutation
    \/ EvaluateOffspring
    \/ UpdateHof
    \/ ReplaceAndRecord
    \/ Finish

Spec == Init /\ [][Next]_vars

(***************************************************************************)
(* Single calls of the cost model on a grid of candidates                  *)
(***************************************************************************)
\* Bound of the grid: how many steps of Sigma it extends below 0 and above P_max
MaxSteps == 4

EvalTechnologyIds == TechIdSet \cup {99}
EvalCapacities == {Sigma * k : k \in (-MaxSteps)..((P_max \div Sigma) + MaxSteps)}
EvalSolutions == {<<t, y>> : t \in EvalTechnologyIds, y \in EvalCapacities}

InitEval ==
    /\ population_size = 0
    /\ generations = 0
    /\ cxpb = CXPB
    /\ mutpb = MUTPB
    /\ pc = "start"
    /\ error = "none"
    /\ population = <<>>
    /\ offspring = <<>>
    /\ hof = <<>>
    /\ gen = 0
    /\ nevals = 0
    /\ logbook = <<>>
    /\ result = <<>>
    /\ solution = <<1, 500>>
    /\ outcome = <<>>

\* The four public methods of ProductionModel called on one solution
Evaluate ==
    /\ outcome = <<>>
    /\ outcome' = <<[quality |-> calculate_quality(solution[1], solution[2]),
                     objective |-> objective_function(solution),
                     feasibility |-> is_feasible(solution),
                     fitness |-> fitness_function(solution)]>>
    /\ UNCHANGED <<population_size, generations, cxpb, mutpb, pc, error, population,
                   offspring, hof, gen, nevals, logbook, result, solution>>

\* The caller moves on to another solution
NextSolution ==
    /\ outcome # <<>>
    /\ solution' \in EvalSolutions
    /\ outcome' = <<>>
    /\ UNCHANGED <<population_size, generations, cxpb, mutpb, pc, error, population,
                   offspring, hof, gen, nevals, logbook, result>>

NextEval ==
    \/ Evaluate
    \/ NextSolution

SpecEval == InitEval /\ [][NextEval]_vars

(***************************************************************************)
(* Properties                                                              *)
(***************************************************************************)
Max0(x) == IF x > 0 THEN x ELSE 0

\* The first row of the table whose id is technology_id (0 when none is)
RowOf(technology_id) ==
    IF \E i \in 1..Len(Technologies) : Technologies[i].id = technology_id
    THEN CHOOSE i \in 1..Len(Technologies) :
             /\ Technologies[i].id = technology_id
             /\ \A j \in 1..(i - 1) : Technologies[j].id # technology_id
    ELSE 0

\* The cost of the claim's formula, from the record's fields
ExpectedObjective(row, y) ==
    row.capital_cost + row.operational_cost * y
    + C_E * row.energy_consumption_rate * y + C_B * y

\* The four constraints, from the record's fields
AllConstraintsHold(row, y) ==
    /\ y <= P_max
    /\ row.energy_consumption_rate * y <= E_max
    /\ row.efficiency_factor * y >= Q_min
    /\ y >= 0

\* 1000 times the sum of the magnitudes of the violated constraints
ExpectedPenalty(row, y) ==
    PenaltyMultiplier * ( Max0(y - P_max)
                          + Max0(row.energy_consumption_rate * y - E_max)
                          + Max0(Q_min - row.efficiency_factor * y)
                          + Max0(-y) )

\* C1: for every known technology_id and every capacity that satisfies all
\* four constraints, is_feasible returns (true, 0) and fitness_function
\* returns exactly objective_function's value, which is capital_cost +
\* operational_cost*capacity + C_E*energy_consumption_rate*capacity +
\* C_B*capacity; the candidate (1, 500) costs 1975 GBP.
C1_FeasibleFitnessIsObjective ==
    (outcome # <<>> /\ RowOf(solution[1]) # 0) =>
        LET row == Technologies[RowOf(solution[1])]
            y == solution[2]
        IN  /\ AllConstraintsHold(row, y) =>
                /\ outcome[1].feasibility = Return(<<TRUE, 0>>)
                /\ outcome[1].objective = Return(ExpectedObjective(row, y))
                /\ outcome[1].fitness = Return(<<ExpectedObjective(row, y)>>)
            /\ solution = <<1, 500>> => outcome[1].fitness = Return(<<197500>>)

C1_Witness ==
    /\ outcome # <<>>
    /\ solution = <<1, 500>>
    /\ outcome[1].feasibility = Return(<<TRUE, 0>>)
    /\ outcome[1].fitness = Return(<<197500>>)

Pool == {population[i] : i \in 1..Len(population)}
            \cup {offspring[i] : i \in 1..Len(offspring)}
            \cup {hof[i] : i \in 1..Len(hof)}

UnknownTechnology(ind) == ind.genes[1] \notin TechIdSet

\* C3: evaluating a candidate whose technology_id matches no loaded record
\* returns no value from any of the four methods (it raises), such a
\* candidate never carries a fitness, and an evaluation pass of the loop that
\* meets one aborts the run: no best candidate is returned, none is
\* substituted, and the run takes no further step.
C3_UnknownTechnologyAborts ==
    /\ [](\A ind \in Pool : UnknownTechnology(ind) =>
              /\ Raised(calculate_quality(ind.genes[1], ind.genes[2]))
              /\ Raised(objective_function(ind.genes))
              /\ Raised(is_feasible(ind.genes))
              /\ Raised(fitness_function(ind.genes))
              /\ ~Valid(ind))
    /\ [](pc = "aborted" => result = <<>>)
    /\ [][(pc = "varied" /\ \E i \in 1..Len(offspring) : UnknownTechnology(offspring[i]))
             => (pc' = "aborted" /\ error' = "IndexError" /\ result' = <<>> /\ hof' = hof
                 /\ population' = population)]_vars
    /\ [][(pc = "aborted") => (pc' = "aborted")]_vars

C3_Witness ==
    /\ pc = "aborted"
    /\ error = "IndexError"
    /\ \E i \in 1..Len(offspring) : UnknownTechnology(offspring[i])
    /\ result = <<>>

\* C4 (as claimed): in every state of a run (initial population, after
\* selection, after crossover, after mutation, after replacement) every
\* candidate's technology_id is the id of a loaded technology record.
C4_AllGenesKnown ==
    \A ind \in Pool : ~UnknownTechnology(ind)

ValidConfiguration ==
    /\ population_size > 0
    /\ generations > 0
    /\ cxpb \in 0..10
    /\ mutpb \in 0..10

\* C5 (as claimed): a run with a valid configuration never ends otherwise
\* than in DONE, after exactly `generations` cycles, returning the member of
\* the hall of fame.
C5_RunsToDone ==
    ValidConfiguration =>
        /\ pc # "aborted"
        /\ pc = "done" => (gen = generations /\ Len(logbook) = generations + 1
                           /\ result[1].best = hof[1])

\* C6: the fitness held by the hall of fame never gets worse: no step
\* empties the hall or raises the fitness of its member.
C6_BestNeverWorse ==
    [][Len(hof) > 0 => (Len(hof') > 0 /\ hof'[1].fitness[1] <= hof[1].fitness[1])]_vars

\* a later generation improved on the best, and another run lost it from the population
C6_Witness ==
    /\ pc = "loop"
    /\ gen >= 1
    /\ Len(hof) = 1
    /\ \A i \in 1..Len(population) : population[i].fitness[1] > hof[1].fitness[1]
    /\ hof[1].fitness[1] < logbook[1].stats.min

AfterTracking == {"tracked0", "tracked", "loop", "selected", "mated", "varied", "done"}

\* C7: after every evaluation pass and the hall of fame update that follows
\* it, the hall holds one candidate, its fitness is the fitness of its genes
\* and is at most the fitness of every candidate evaluated so far (the
\* minimum of every recorded generation and of the pass just finished); the
\* result returned is that candidate with the fitness of its genes as cost.
\* (A pass over an empty population evaluates nothing and leaves the hall
\* empty; the statistics then end the run.)
C7_BestIsMinimum ==
    (pc \in AfterTracking /\ population # <<>>) =>
        /\ Len(hof) = 1
        /\ hof[1].fitness = fitness_function(hof[1].genes).value
        /\ \A g \in 1..Len(logbook) : hof[1].fitness[1] <= logbook[g].stats.min
        /\ pc = "tracked0" =>
               \A i \in 1..Len(population) : hof[1].fitness[1] <= population[i].fitness[1]
        /\ pc = "tracked" =>
               \A i \in 1..Len(offspring) : hof[1].fitness[1] <= offspring[i].fitness[1]
        /\ pc = "done" =>
               /\ result[1].best = hof[1]
               /\ result[1].best_cost = hof[1].fitness[1]
               /\ result[1].best_cost = fitness_function(result[1].best.genes).value[1]

C7_Witness ==
    /\ pc = "done"
    /\ gen >= 1
    /\ result[1].best_cost < logbook[1].stats.min
    /\ \A g \in 1..Len(logbook) : result[1].best_cost <= logbook[g].stats.min

\* C8 (as claimed): for an invalid configuration no candidate is generated
\* or evaluated and no result is returned.
C8_InvalidConfigurationRejected ==
    ~ValidConfiguration =>
        /\ population = <<>>
        /\ nevals = 0
        /\ logbook = <<>>
        /\ result = <<>>

InGeneration == {"loop", "selected", "mated", "varied", "evaluated", "tracked", "done"}
OffspringStage == {"selected", "mated", "varied", "evaluated", "tracked"}

\* C9: from generation 0 on the population holds exactly population_size
\* candidates, and so does the offspring pool after selection, after
\* crossover, after mutation, after evaluation and when it is installed.
C9_PopulationSizeConstant ==
    /\ pc \in InGeneration => Len(population) = population_size
    /\ pc \in OffspringStage => Len(offspring) = population_size

C9_Witness ==
    /\ pc = "loop"
    /\ gen >= 1
    /\ population_size >= 2
    /\ Len(population) = population_size
    /\ Len(offspring) = population_size

Fresh(ind) ==
    /\ Valid(ind)
    /\ ind.fitness = fitness_function(ind.genes).value

\* C10: a cached fitness is never stale.  Every fitness held anywhere is the
\* fitness of the genes it is held with; when selection (pc = "loop"), the
\* hall of fame update ("evaluated0", "evaluated") or the statistics
\* ("tracked0", "tracked") read a pool, every member of it has one; crossover
\* and mutation leave no fitness on an individual whose genes they changed;
\* and an evaluation pass evaluates the invalid individuals only.
C10_FitnessNeverStale ==
    /\ [](\A ind \in Pool : Valid(ind) => Fresh(ind))
    /\ [](pc \in {"evaluated0", "tracked0", "loop"} =>
              \A i \in 1..Len(population) : Fresh(population[i]))
    /\ [](pc \in {"evaluated", "tracked"} =>
              \A i \in 1..Len(offspring) : Fresh(offspring[i]))
    /\ [][(pc \in {"selected", "mated"}) =>
              (\A i \in 1..Len(offspring) :
                  offspring'[i].genes # offspring[i].genes => ~Valid(offspring'[i]))]_vars
    /\ [][(pc = "varied" /\ pc' = "evaluated") =>
              (/\ nevals' = Cardinality({i \in 1..Len(offspring) : ~Valid(offspring[i])})
               /\ \A i \in 1..Len(offspring) :
                      (Valid(offspring[i]) => offspring'[i] = offspring[i]))]_vars

\* one offspring was varied and evaluated again, the other kept its fitness
C10_Witness ==
    /\ pc = "evaluated"
    /\ nevals >= 1
    /\ nevals < Len(offspring)
    /\ \E i \in 1..Len(offspring) :
           /\ \A j \in 1..Len(population) : offspring[i].genes # population[j].genes
           /\ Fresh(offspring[i])
    /\ \E i \in 1..Len(offspring) :
           \E j \in 1..Len(population) : offspring[i] = population[j]

====
